---- MODULE Spec2Model ----
(***************************************************************************)
(* AutoPod: webhook-triggered build/deploy orchestration (handle_webhook)  *)
(* and the runtime-state resync (PodmanManager.sync_with_db) that mirrors  *)
(* the container runtime into the SQLite tables read by the dashboard.     *)
(*                                                                         *)
(* Request threads of the Flask server run the handlers step by step; the  *)
(* container runtime, the file system and the database are shared state.   *)
(* Strings are real strings: names, URLs and messages are computed the way *)
(* the Python code computes them.                                          *)
(***************************************************************************)
EXTENDS Integers, Sequences, FiniteSets, TLC

VARIABLES
    frame,      \* per request thread: handler, position and local variables
    runtime,    \* the containers podman knows, in listing order
    extBusy,    \* host ports bound by processes other than our containers
    db,         \* committed content of the mirror tables (containers, logs)
    txn,        \* per thread: uncommitted working copy inside get_db_cursor
    dbWriter,   \* thread holding the database write lock, 0 when free
    clock,      \* logical time, read by datetime.now()
    issued,     \* history: podman stop / rm commands issued, with their origin
    snapshots,  \* history: complete mirror snapshots (initial one and one per committed resync)
    last        \* history: the listing, the skipped entries and the fetched logs of the last
                \* committed resync, and the mirror before it when it repeated the resync before

vars == <<frame, runtime, extBusy, db, txn, dbWriter, clock, issued, snapshots, last>>

-----------------------------------------------------------------------------
(* Bounds of the model *)

NumThreads == 2     \* request threads, each serving one request

Threads == 1..NumThreads

-----------------------------------------------------------------------------
(* Python string operations *)

Char(s, i) == SubSeq(s, i, i)

\* sub in s
Contains(s, sub) ==
    \/ Len(sub) = 0
    \/ \E i \in 1..(Len(s) - Len(sub) + 1) : SubSeq(s, i, i + Len(sub) - 1) = sub

\* s.startswith(p)
StartsWith(s, p) == Len(p) <= Len(s) /\ SubSeq(s, 1, Len(p)) = p

\* s.rstrip(ch)
RECURSIVE RStrip(_, _)
RStrip(s, ch) ==
    IF Len(s) > 0 /\ Char(s, Len(s)) = ch
    THEN RStrip(SubSeq(s, 1, Len(s) - 1), ch)
    ELSE s

\* s.replace(old, new), old non-empty, left to right, non-overlapping
RECURSIVE Replace(_, _, _)
Replace(s, old, new) ==
    IF Len(s) < Len(old) THEN s
    ELSE IF SubSeq(s, 1, Len(old)) = old
         THEN new \o Replace(SubSeq(s, Len(old) + 1, Len(s)), old, new)
         ELSE Char(s, 1) \o Replace(SubSeq(s, 2, Len(s)), old, new)

\* s.split(sep), sep one character: a sequence of strings
RECURSIVE SplitFrom(_, _, _, _)
SplitFrom(s, sep, i, cur) ==
    IF i > Len(s) THEN <<cur>>
    ELSE IF Char(s, i) = sep
         THEN <<cur>> \o SplitFrom(s, sep, i + 1, "")
         ELSE SplitFrom(s, sep, i + 1, cur \o Char(s, i))

Split(s, sep) == SplitFrom(s, sep, 1, "")

Upper == "ABCDEFGHIJKLMNOPQRSTUVWXYZ"
Lower == "abcdefghijklmnopqrstuvwxyz"
Digits == "0123456789"

LowerChar(c) ==
    IF \E k \in 1..Len(Upper) : Char(Upper, k) = c
    THEN Char(Lower, CHOOSE k \in 1..Len(Upper) : Char(Upper, k) = c)
    ELSE c

\* s.lower()
RECURSIVE ToLower(_)
ToLower(s) ==
    IF Len(s) = 0 THEN "" ELSE LowerChar(Char(s, 1)) \o ToLower(SubSeq(s, 2, Len(s)))

\* c.isalnum() on ASCII
IsAlnum(c) == Contains(Upper, c) \/ Contains(Lower, c) \/ Contains(Digits, c)

\* ''.join(c for c in s if c.isalnum() or c == '-')
RECURSIVE KeepNameChars(_)
KeepNameChars(s) ==
    IF Len(s) = 0 THEN ""
    ELSE (IF IsAlnum(Char(s, 1)) \/ Char(s, 1) = "-" THEN Char(s, 1) ELSE "")
         \o KeepNameChars(SubSeq(s, 2, Len(s)))

-----------------------------------------------------------------------------
(* Webhook payloads: the JSON value request.get_json() hands to handle_webhook *)

NoRepo == [shape |-> "none", hasUrl |-> FALSE, clone_url |-> "", hasName |-> FALSE, name |-> ""]

RepoMap(url, name) ==
    [shape |-> "map", hasUrl |-> url # "", clone_url |-> url, hasName |-> name # "", name |-> name]

\* "repository": "<some string>" -- a descriptor that is not an object
RepoStr == [shape |-> "str", hasUrl |-> FALSE, clone_url |-> "", hasName |-> FALSE, name |-> ""]

MapPayload(repo, test, other) ==
    [shape |-> "map", num |-> 0, hasRepository |-> repo.shape # "none", repository |-> repo,
     hasTest |-> test, hasOther |-> other]

NumPayload(n) ==
    [shape |-> "num", num |-> n, hasRepository |-> FALSE, repository |-> NoRepo,
     hasTest |-> FALSE, hasOther |-> FALSE]

EmptyPayload == MapPayload(NoRepo, FALSE, FALSE)                  \* {}
OtherPayload == MapPayload(NoRepo, FALSE, TRUE)                   \* {"ref": "refs/heads/main"}
TestPayload == MapPayload(NoRepo, TRUE, FALSE)                    \* {"test": true}
WidgetPayload == MapPayload(RepoMap("https://github.com/acme/widget.git", "widget"), FALSE, FALSE)
ForkPayload == MapPayload(RepoMap("https://github.com/Other/Widget/", "Widget"), FALSE, FALSE)
GitlabPayload == MapPayload(RepoMap("https://gitlab.com/acme/tool.git", "tool"), FALSE, FALSE)
NoUrlPayload == MapPayload(RepoMap("", "My App"), FALSE, FALSE)   \* {"repository": {"name": "My App"}}
BareUrlPayload == MapPayload(RepoMap("https://gitlab.com/acme/tool.git", ""), FALSE, FALSE)
BadRepoPayload == MapPayload(RepoStr, FALSE, FALSE)               \* {"repository": "widget"}

Payloads ==
    {EmptyPayload, OtherPayload, TestPayload, WidgetPayload, ForkPayload, GitlabPayload,
     NoUrlPayload, BareUrlPayload, BadRepoPayload, NumPayload(0), NumPayload(5)}

\* bool(payload)
Truthy(p) ==
    IF p.shape = "map" THEN p.hasRepository \/ p.hasTest \/ p.hasOther ELSE p.num # 0

\* `key in payload` raises TypeError on a number
InRaises(p) == p.shape = "num"

-----------------------------------------------------------------------------
(* Names *)

extract_repo_name_from_url(repo_url) ==
    IF repo_url = "" THEN "webhook-app"
    ELSE LET clean_url == Replace(RStrip(repo_url, "/"), ".git", "")
             parts == Split(clean_url, "/")
             repo_name == IF Len(parts) >= 5 THEN parts[5]
                          ELSE IF Len(parts) >= 2 THEN parts[Len(parts)]
                          ELSE "webhook-app"
         IN  IF Contains(clean_url, "github.com") /\ repo_name # "" /\ repo_name # "webhook-app"
             THEN KeepNameChars(Replace(Replace(ToLower(repo_name), " ", "-"), "_", "-"))
             ELSE "webhook-app"

\* a name taken from the URL alone, the sentinel included
ResolvedRepoNameFromUrl(p) ==
    IF p.hasRepository
    THEN extract_repo_name_from_url(p.repository.clone_url)
    ELSE "test-app"

\* repo_name after lines 23-44 of handle_webhook, for a payload that is accepted
ResolvedRepoName(p) ==
    LET listed == IF p.hasRepository
                  THEN (IF p.repository.hasName THEN p.repository.name ELSE "webhook-app")
                  ELSE "test-app"
        url == IF p.hasRepository THEN p.repository.clone_url ELSE ""
        extracted_name == extract_repo_name_from_url(url)
    IN  IF url # "" /\ extracted_name # "" /\ extracted_name # "webhook-app"
        THEN extracted_name
        ELSE listed

\* an image name made unique per build by a time suffix
ImageNameStamped(repo_name) ==
    "autopod-" \o Replace(ToLower(repo_name), " ", "-") \o "-" \o ToString(clock)

ImageName(repo_name) == "autopod-" \o Replace(ToLower(repo_name), " ", "-")

ContainerName(image_name) == image_name \o "-container"

-----------------------------------------------------------------------------
(* Outcomes of handle_webhook *)

NoOutcome ==
    [status |-> "", message |-> "", container_name |-> "", image_name |-> "", port |-> 0,
     access_url |-> "", repo_name |-> "", keys |-> {}]

ErrorOutcome(msg) ==
    [NoOutcome EXCEPT !.status = "error", !.message = msg, !.keys = {"status", "message"}]

\* a success outcome that leaves out the access URL
SuccessOutcomeWithoutUrl(container_name, image_name, port, repo_name) ==
    [status |-> "success",
     message |-> "Container " \o container_name \o " deployed successfully on port " \o ToString(port),
     container_name |-> container_name, image_name |-> image_name, port |-> port,
     access_url |-> "", repo_name |-> repo_name,
     keys |-> {"status", "message", "container_name", "image_name", "port", "repo_name"}]

SuccessOutcome(container_name, image_name, port, repo_name) ==
    [status |-> "success",
     message |-> "Container " \o container_name \o " deployed successfully on port " \o ToString(port),
     container_name |-> container_name, image_name |-> image_name, port |-> port,
     access_url |-> "http://127.0.0.1:" \o ToString(port), repo_name |-> repo_name,
     keys |-> {"status", "message", "container_name", "image_name", "port", "access_url",
               "repo_name"}]

-----------------------------------------------------------------------------
(* The container runtime (podman) *)

Container(name, id, state, status, port) ==
    [Names |-> <<name>>, Id |-> id, State |-> state, Status |-> status, port |-> port]

\* index of the container podman resolves `target` to (a name, or an ID prefix); 0 if none
PodmanFind(rt, target) ==
    LET hits == {i \in 1..Len(rt) : rt[i].Names[1] = target \/ StartsWith(rt[i].Id, target)}
    IN  IF hits = {} THEN 0 ELSE CHOOSE i \in hits : \A j \in hits : i <= j

\* podman stop <target>: the container exits and releases its port
PodmanStop(rt, target) ==
    LET i == PodmanFind(rt, target)
    IN  IF i = 0 THEN rt
        ELSE IF rt[i].State = "running"
             THEN [rt EXCEPT ![i] = [@ EXCEPT !.State = "exited",
                                              !.Status = "Exited (0) 1 second ago",
                                              !.port = 0]]
             ELSE rt

\* podman rm <target>: refuses a running container
PodmanRm(rt, target) ==
    LET i == PodmanFind(rt, target)
    IN  IF i = 0 \/ rt[i].State = "running" THEN rt
        ELSE SubSeq(rt, 1, i - 1) \o SubSeq(rt, i + 1, Len(rt))

\* podman start <target>: a container that is not running runs again
PodmanStart(rt, target) ==
    LET i == PodmanFind(rt, target)
    IN  IF i = 0 \/ rt[i].State = "running" THEN rt
        ELSE [rt EXCEPT ![i] = [@ EXCEPT !.State = "running", !.Status = "Up 1 second"]]

\* podman restart <target>
PodmanRestart(rt, target) == PodmanStart(PodmanStop(rt, target), target)

\* the exit status of podman start | stop | restart | rm <target> is 0
PodmanAccepts(rt, cmd, target) ==
    LET i == PodmanFind(rt, target)
    IN  i # 0 /\ (cmd = "rm" => rt[i].State # "running")

\* _run_cmd (lines 12-19): the command's stdout, which names the container, or "" when
\* the command exits with an error
_run_cmd(rt, cmd, target) == IF PodmanAccepts(rt, cmd, target) THEN target ELSE ""

\* lines 239-248: False when the output mentions an error or the command could not be
\* spawned (the except branch), True otherwise
GatewayResult(spawned, result) == spawned /\ ~Contains(ToLower(result), "error")

PortHeld(rt, p) == \E i \in 1..Len(rt) : rt[i].State = "running" /\ rt[i].port = p

\* s.bind(('127.0.0.1', port)) succeeds
Bindable(p) == p \notin extBusy /\ ~PortHeld(runtime, p)

\* podman run -d --name <name> -p <port>:80 <image> can start the container
RunPossible(rt, name, p) ==
    /\ \A i \in 1..Len(rt) : rt[i].Names[1] # name
    /\ p \notin extBusy
    /\ ~PortHeld(rt, p)

PreferredStart == 8081
PortSpan == 50

\* the loop of find_available_port (lines 342-348): bind port, port + 1, ... up to
\* max_port; the port the loop ends on, whether a bind succeeded, and the binds made
RECURSIVE Probe(_, _, _)
Probe(port, max_port, probes) ==
    IF port > max_port THEN [found |-> FALSE, port |-> port, probes |-> probes]
    ELSE IF Bindable(port) THEN [found |-> TRUE, port |-> port, probes |-> probes + 1]
    ELSE Probe(port + 1, max_port, probes + 1)

\* a search that returns where it stopped when no port is free
find_available_port_past_range(start_port) ==
    Probe(start_port, start_port + PortSpan, 0).port

find_available_port(start_port) ==
    LET searched == Probe(start_port, start_port + PortSpan, 0)
    IN  IF searched.found THEN searched.port ELSE start_port

\* the number of binds find_available_port attempts
Probes(start_port) == Probe(start_port, start_port + PortSpan, 0).probes

\* the name stop/restart/remove_container hand to podman: the last listed container with a
\* name containing container_name or contained in it, an ID starting with it, else the name itself
RECURSIVE FindTargetFrom(_, _, _, _)
FindTargetFrom(containers, container_name, i, actual_container_name) ==
    IF i > Len(containers) THEN actual_container_name
    ELSE LET c == containers[i]
             hits == {k \in 1..Len(c.Names) :
                         \/ Contains(c.Names[k], container_name)
                         \/ Contains(container_name, c.Names[k])}
             byName == IF hits = {} THEN actual_container_name
                       ELSE c.Names[CHOOSE k \in hits : \A j \in hits : k <= j]
         IN  IF StartsWith(c.Id, container_name) THEN c.Id
             ELSE FindTargetFrom(containers, container_name, i + 1, byName)

TargetName(containers, container_name) ==
    LET actual_container_name == FindTargetFrom(containers, container_name, 1, "")
    IN  IF actual_container_name # "" THEN actual_container_name ELSE container_name

-----------------------------------------------------------------------------
(* The mirror tables *)

EmptyTables == [containers |-> << >>, logs |-> << >>]

\* a normalisation without the special case of the clock-bug artifact
NormalizeStatusBySubstring(container_status, container_state) ==
    IF Contains(container_status, "Exited") THEN "Exited"
    ELSE IF Contains(container_status, "Up") THEN "Running"
    ELSE IF Contains(container_status, "Created") THEN "Created"
    ELSE container_status

\* status normalisation of sync_with_db
NormalizeStatus(container_status, container_state) ==
    IF Contains(container_status, "292 years ago")
    THEN (IF container_state = "running" THEN "Running" ELSE "Exited")
    ELSE IF Contains(container_status, "Exited") THEN "Exited"
    ELSE IF Contains(container_status, "Up") THEN "Running"
    ELSE IF Contains(container_status, "Created") THEN "Created"
    ELSE container_status

ListedName(container) == IF Len(container.Names) > 0 THEN container.Names[1] ELSE "unknown"

\* a row keyed by the container ID instead of its name
ContainerRowById(container, now) ==
    [container_name |-> container.Id,
     status |-> NormalizeStatus(container.Status, container.State),
     created_at |-> now]

ContainerRow(container, now) ==
    [container_name |-> ListedName(container),
     status |-> NormalizeStatus(container.Status, container.State),
     created_at |-> now]

LogRow(container, line, now) ==
    [container_name |-> ListedName(container), log |-> line, timestamp |-> now]

\* logs fetched whatever the state of the container
FetchesLogsAlways(container) == TRUE

\* line 112: logs are fetched for a container whose raw state is "running"
FetchesLogs(container) == container.State = "running"

\* the log rows one listed container contributes: one per line fetched if it runs,
\* the placeholder line otherwise
LogRowsFor(container, lines, now) ==
    IF FetchesLogs(container)
    THEN [k \in 1..Len(lines) |-> LogRow(container, lines[k], now)]
    ELSE <<LogRow(container,
                  "Container is " \o NormalizeStatus(container.Status, container.State)
                      \o ". Start container to see logs.",
                  now)>>

NamesIn(rows) == {rows[k].container_name : k \in 1..Len(rows)}

ListedNames(containers) == {ListedName(containers[k]) : k \in 1..Len(containers)}

-----------------------------------------------------------------------------
(* Files of a working directory: a set of [name, origin] *)

File(name, origin) == [name |-> name, origin |-> origin]

FileNames(files) == {f.name : f \in files}

DemoFiles == {File("Containerfile", "demo"), File("Dockerfile", "demo"), File("index.html", "demo")}

\* a demo project that consists of the page alone
create_demo_page_only(files) ==
    {f \in files : f.name # "index.html"} \cup {File("index.html", "demo")}

\* create_demo_project: writes (and overwrites) its three files
create_demo_project(files) ==
    {f \in files : f.name \notin FileNames(DemoFiles)} \cup DemoFiles

\* what a successful `git clone --depth 1` can leave in repo_path
ClonedTrees ==
    { {File("README.md", "repo")},
      {File("README.md", "repo"), File("Dockerfile", "repo")},
      {File("Containerfile", "repo"), File("index.html", "repo")} }

HasDescriptor(files) == "Containerfile" \in FileNames(files) \/ "Dockerfile" \in FileNames(files)

-----------------------------------------------------------------------------
(* Responses of the /webhook endpoint *)

\* request.get_json() gave None (the body is the JSON null)
NullBody ==
    [shape |-> "null", num |-> 0, hasRepository |-> FALSE, repository |-> NoRepo,
     hasTest |-> FALSE, hasOther |-> FALSE]

\* request.get_json() raised: the body is not JSON
MalformedBody ==
    [shape |-> "malformed", num |-> 0, hasRepository |-> FALSE, repository |-> NoRepo,
     hasTest |-> FALSE, hasOther |-> FALSE]

\* what a POST to /webhook can carry
Bodies == Payloads \cup {NullBody, MalformedBody}

NoBody == [status |-> "", message |-> "", data |-> NoOutcome]

\* jsonify({"status": ..., "message": ...})
ErrorBody(msg) == [status |-> "error", message |-> msg, data |-> NoOutcome]

\* a response that takes its status from the outcome of handle_webhook
AnswerByOutcome(result) ==
    IF result.status = "success"
    THEN [code |-> "200",
          body |-> [status |-> "success", message |-> "Deployment completed successfully",
                    data |-> result]]
    ELSE [code |-> "500", body |-> [status |-> "error", message |-> result.message, data |-> result]]

\* app.py lines 209-213: the response for an outcome that handle_webhook returned
Answer(result) ==
    [code |-> "200",
     body |-> [status |-> "success", message |-> "Deployment completed successfully",
               data |-> result]]

-----------------------------------------------------------------------------
(* Request threads *)

IdleFrame ==
    [handler |-> "none", pc |-> "idle", payload |-> EmptyPayload,
     repo_url |-> "", repo_name |-> "", temp_dir |-> "none", files |-> {}, tree |-> {},
     clone_success |-> FALSE, image_name |-> "", container_name |-> "", port |-> 0,
     probes |-> 0, ports |-> "", containers |-> << >>, listed |-> FALSE, i |-> 0, skipped |-> {}, fetched |-> << >>,
     build_success |-> FALSE, run_success |-> FALSE, started |-> FALSE, success |-> FALSE,
     result |-> NoOutcome, raised |-> "", response |-> "", body |-> NoBody,
     manager |-> TRUE, overlap |-> FALSE,
     calls |-> << >>, seen |-> EmptyTables]

Set(t, f) == frame' = [frame EXCEPT ![t] = f]

Called(f, op) == Append(f.calls, op)

\* the except branch of handle_webhook (lines 133-139)
ExceptBranch(f, e) ==
    [f EXCEPT !.pc = "returned",
              !.temp_dir = "removed",
              !.files = {},
              !.calls = Called(f, "rmtree"),
              !.result = ErrorOutcome("Webhook processing failed: " \o e)]

-----------------------------------------------------------------------------
(* handle_webhook *)

\* lines 12-50: classify the payload, resolve the repository name, create the temp directory
HandleWebhook(t, p) ==
    /\ frame[t].pc = "idle"
    /\ LET f == [IdleFrame EXCEPT !.handler = "handle_webhook", !.payload = p]
       IN  IF Truthy(p) /\ InRaises(p)
           THEN Set(t, [f EXCEPT !.pc = "returned", !.raised = "TypeError"])
           ELSE IF Truthy(p) /\ p.hasRepository
           THEN IF p.repository.shape # "map"
                THEN Set(t, [f EXCEPT !.pc = "returned", !.raised = "AttributeError"])
                ELSE Set(t, [f EXCEPT !.pc = "materialize",
                                      !.repo_url = p.repository.clone_url,
                                      !.repo_name = ResolvedRepoName(p),
                                      !.temp_dir = "exists",
                                      !.calls = <<"mkdtemp">>])
           ELSE IF Truthy(p) /\ p.hasTest
           THEN Set(t, [f EXCEPT !.pc = "materialize",
                                 !.repo_name = ResolvedRepoName(p),
                                 !.temp_dir = "exists",
                                 !.calls = <<"mkdtemp">>])
           ELSE Set(t, [f EXCEPT !.pc = "returned",
                                 !.result = ErrorOutcome(
                                     "Invalid webhook payload: missing 'repository' or 'test' field")])
    /\ UNCHANGED <<runtime, extBusy, db, txn, dbWriter, clock, issued, snapshots, last>>

\* a clone attempted for every URL
ClonesAnyUrl(repo_url) == repo_url # ""

\* line 54: the clone is attempted for a URL of GitHub
ClonesUrl(repo_url) == repo_url # "" /\ StartsWith(repo_url, "https://github.com/")

\* a demo project laid over every cloned tree
NeedsDemoAlways(tree) == TRUE

\* lines 65-71: a cloned tree gets the demo project when it holds neither a Dockerfile
\* nor a Containerfile
NeedsDemo(tree) == ~HasDescriptor(tree)

\* lines 52-75: clone a GitHub repository, else (or on failure, or without a build
\* descriptor) synthesize the demo project; create_demo_project may raise OSError
Materialize(t) ==
    /\ frame[t].pc = "materialize"
    /\ LET f == frame[t]
           github == ClonesUrl(f.repo_url)
       IN  \/ /\ github
              /\ \E clone_success \in BOOLEAN, tree \in ClonedTrees :
                    LET g == [f EXCEPT !.calls = Called(f, "clone")]
                    IN  IF ~clone_success
                        THEN Set(t, [g EXCEPT !.pc = "build",
                                              !.files = create_demo_project({}),
                                              !.calls = Called(g, "demo")])
                        ELSE IF NeedsDemo(tree)
                        THEN Set(t, [g EXCEPT !.pc = "build",
                                              !.clone_success = TRUE,
                                              !.tree = tree,
                                              !.files = create_demo_project(tree),
                                              !.calls = Called(g, "demo")])
                        ELSE Set(t, [g EXCEPT !.pc = "build",
                                              !.clone_success = TRUE,
                                              !.tree = tree,
                                              !.files = tree])
           \/ /\ ~github
              /\ Set(t, [f EXCEPT !.pc = "build",
                                  !.files = create_demo_project({}),
                                  !.calls = Called(f, "demo")])
           \/ LET g == IF github THEN [f EXCEPT !.calls = Called(f, "clone")] ELSE f
              IN  Set(t, ExceptBranch([g EXCEPT !.calls = Called(g, "demo")], "OSError"))
    /\ UNCHANGED <<runtime, extBusy, db, txn, dbWriter, clock, issued, snapshots, last>>

\* PodmanManager.build_image: False without a build descriptor, else podman build's verdict
build_image(files, podman_ok) == HasDescriptor(files) /\ podman_ok

\* a build result that does not gate the rest of the deployment
AfterBuildUngated(f, build_success) ==
    [f EXCEPT !.build_success = build_success, !.pc = "stop"]

\* a deployment that starts the new container without tearing the old one down
AfterBuildWithoutTeardown(f, build_success) ==
    IF ~build_success
    THEN [f EXCEPT !.build_success = FALSE,
                   !.pc = "returned",
                   !.result = ErrorOutcome("Image build failed for " \o f.image_name)]
    ELSE [f EXCEPT !.build_success = TRUE, !.pc = "port"]

\* lines 87-91: a failed build returns the error outcome, a successful one goes on
AfterBuild(f, build_success) ==
    IF ~build_success
    THEN [f EXCEPT !.build_success = FALSE,
                   !.pc = "returned",
                   !.result = ErrorOutcome("Image build failed for " \o f.image_name)]
    ELSE [f EXCEPT !.build_success = TRUE, !.pc = "stop"]

\* lines 77-91: name the image and the container, build the image
BuildImage(t) ==
    /\ frame[t].pc = "build"
    /\ \E podman_ok \in BOOLEAN :
          LET f == frame[t]
              image_name == ImageName(f.repo_name)
              g == [f EXCEPT !.image_name = image_name,
                             !.container_name = ContainerName(image_name),
                             !.calls = Called(f, "build")]
          IN  Set(t, AfterBuild(g, build_image(f.files, podman_ok)))
    /\ UNCHANGED <<runtime, extBusy, db, txn, dbWriter, clock, issued, snapshots, last>>

\* a listing that answers although podman ps failed
get_containers_despite_failure(ok) == runtime

\* PodmanManager.get_containers: the listing, or [] when podman ps fails
get_containers(ok) == IF ok THEN runtime ELSE << >>

\* line 95: stop_container(container_name); its result is ignored
StopContainer(t) ==
    /\ frame[t].pc = "stop"
    /\ \E ok \in BOOLEAN :
          LET f == frame[t]
              target_name == TargetName(get_containers(ok), f.container_name)
          IN  /\ runtime' = PodmanStop(runtime, target_name)
              /\ issued' = issued \cup {[by |-> f.container_name, cmd |-> "stop", target |-> target_name]}
              /\ Set(t, [f EXCEPT !.pc = "remove", !.calls = Called(f, "stop")])
    /\ UNCHANGED <<extBusy, db, txn, dbWriter, clock, snapshots, last>>

\* line 96: remove_container(container_name): podman stop, then podman rm; result ignored
RemoveContainer(t) ==
    /\ frame[t].pc = "remove"
    /\ \E ok \in BOOLEAN :
          LET f == frame[t]
              target_name == TargetName(get_containers(ok), f.container_name)
          IN  /\ runtime' = PodmanRm(PodmanStop(runtime, target_name), target_name)
              /\ issued' = issued \cup {[by |-> f.container_name, cmd |-> "stop", target |-> target_name],
                                        [by |-> f.container_name, cmd |-> "rm", target |-> target_name]}
              /\ Set(t, [f EXCEPT !.pc = "port", !.calls = Called(f, "remove")])
    /\ UNCHANGED <<extBusy, db, txn, dbWriter, clock, snapshots, last>>

\* line 102: port = find_available_port(8081)
FindPort(t) ==
    /\ frame[t].pc = "port"
    /\ Set(t, [frame[t] EXCEPT !.pc = "run",
                               !.port = find_available_port(PreferredStart),
                               !.probes = Probes(PreferredStart),
                               !.calls = Called(frame[t], "find_port")])
    /\ UNCHANGED <<runtime, extBusy, db, txn, dbWriter, clock, issued, snapshots, last>>

\* PodmanManager.run_container: _run_cmd swallows a failing podman run (CalledProcessError),
\* so the result is True unless the command could not be spawned at all
run_container(spawned, started) == spawned

\* lines 105-111: run the new container; error outcome when run_container returns False
RunContainer(t) ==
    /\ frame[t].pc = "run"
    /\ \E spawned \in BOOLEAN :
          LET f == frame[t]
              started == spawned /\ RunPossible(runtime, f.container_name, f.port)
              nameFree == \A i \in 1..Len(runtime) : runtime[i].Names[1] # f.container_name
              g == [f EXCEPT !.calls = Called(f, "run"),
                             !.ports = ToString(f.port) \o ":80",
                             !.started = started]
          IN  /\ runtime' =
                    IF started
                    THEN Append(runtime, Container(f.container_name, "5e" \o ToString(clock),
                                                   "running", "Up 2 seconds", f.port))
                    ELSE IF spawned /\ nameFree
                    THEN Append(runtime, Container(f.container_name, "5e" \o ToString(clock),
                                                   "created", "Created", 0))
                    ELSE runtime
              /\ clock' = clock + 1
              /\ IF ~run_container(spawned, started)
                 THEN Set(t, [g EXCEPT !.pc = "returned",
                                       !.result = ErrorOutcome("Failed to run container "
                                                               \o f.container_name)])
                 ELSE Set(t, [g EXCEPT !.pc = "sync", !.run_success = TRUE])
    /\ UNCHANGED <<extBusy, db, txn, dbWriter, issued, snapshots, last>>

-----------------------------------------------------------------------------
(* get_db_cursor: the transaction around the mirror rewrite *)

\* statements that take effect at once (autocommit)
PublishedAtOnce(committed, working) == working

\* what other connections can read while a cursor's statements are uncommitted
Published(committed, working) == committed

\* writers that do not exclude each other
CanWriteAlways(t) == TRUE

\* a write statement needs the database write lock
CanWrite(t) == dbWriter \in {0, t}

-----------------------------------------------------------------------------
(* PodmanManager.sync_with_db *)

\* s.strip() (blanks)
RECURSIVE LStrip(_, _)
LStrip(s, ch) ==
    IF Len(s) > 0 /\ Char(s, 1) = ch THEN LStrip(SubSeq(s, 2, Len(s)), ch) ELSE s

Strip(s) == LStrip(RStrip(s, " "), " ")

\* the stripped non-blank lines of a log text
RECURSIVE StripNonBlank(_)
StripNonBlank(lines) ==
    IF Len(lines) = 0 THEN << >>
    ELSE (IF Strip(lines[1]) # "" THEN <<Strip(lines[1])>> ELSE << >>)
         \o StripNonBlank(Tail(lines))

LogLines(log_text) == IF log_text = "" THEN << >> ELSE StripNonBlank(Split(log_text, "\n"))

\* what `podman logs --tail 50` prints for a running container
LogOutput == "nginx ready\n\n listening on 80 "

\* get_logs: the output of the command; _run_cmd swallows the error of a failing
\* command and returns "", which get_logs passes on
get_logs(cmd_ok) == IF cmd_ok THEN LogOutput ELSE ""

LogTexts == {get_logs(cmd_ok) : cmd_ok \in BOOLEAN}

\* sync_with_db's local variables are gone when it is left
SyncLeft(f) ==
    [f EXCEPT !.containers = << >>, !.listed = FALSE, !.i = 0, !.skipped = {}, !.fetched = << >>]

\* where sync_with_db returns to
AfterSync(f) ==
    IF f.handler = "handle_webhook"
    THEN [SyncLeft(f) EXCEPT !.pc = "cleanup"]
    ELSE [SyncLeft(f) EXCEPT !.pc = "returned", !.response = "200"]

\* where an exception raised by sync_with_db ends up
SyncRaised(f, e) ==
    IF f.handler = "handle_webhook"
    THEN ExceptBranch(SyncLeft(f), e)
    ELSE [SyncLeft(f) EXCEPT !.pc = "returned", !.response = "500"]

\* threads inside sync_with_db
Syncing == {t \in Threads : frame[t].pc \in {"sync", "sync_delete", "sync_loop"}}

\* line 64: containers = self.get_containers()
SyncList(t) ==
    /\ frame[t].pc = "sync"
    /\ \E ok \in BOOLEAN :
          Set(t, [frame[t] EXCEPT !.pc = "sync_delete",
                                  !.containers = get_containers(ok),
                                  !.listed = ok,
                                  !.calls = Called(frame[t], "sync")])
    /\ UNCHANGED <<runtime, extBusy, db, txn, dbWriter, clock, issued, snapshots, last>>

\* a resync that does not clear the tables first
TablesKept(tables) == tables

\* DELETE FROM containers; DELETE FROM logs
TablesAfterDelete(tables) == EmptyTables

\* lines 69-72: enter the cursor and clear both tables; a database that stays locked
\* makes the DELETE raise, and the exception leaves sync_with_db
SyncDelete(t) ==
    /\ frame[t].pc = "sync_delete"
    /\ \/ /\ CanWrite(t)
          /\ dbWriter' = t
          /\ txn' = [txn EXCEPT ![t] = TablesAfterDelete(db)]
          /\ db' = Published(db, TablesAfterDelete(db))
          /\ clock' = clock + 1
          /\ Set(t, [frame[t] EXCEPT !.pc = "sync_loop", !.i = 1, !.skipped = {},
                                     !.fetched = << >>,
                                     !.overlap = (Syncing \ {t} # {})])
       \/ /\ ~CanWrite(t)
          /\ Set(t, SyncRaised(frame[t], "database is locked"))
          /\ UNCHANGED <<db, txn, dbWriter, clock>>
    /\ UNCHANGED <<runtime, extBusy, issued, snapshots, last>>

\* the tables after the rows of one listed container were inserted
TablesAfterInsert(tables, container, log_text, now) ==
    [containers |-> Append(tables.containers, ContainerRow(container, now)),
     logs |-> tables.logs \o LogRowsFor(container, LogLines(log_text), now)]

\* the log texts get_logs can return for a container: it is called for a running
\* container only
FetchedFor(container) == IF FetchesLogs(container) THEN LogTexts ELSE {""}

\* an exception that ends the loop instead of the iteration
ContainerSkippedEndsLoop(f) ==
    [f EXCEPT !.i = Len(f.containers) + 1, !.skipped = f.skipped \cup {f.i}]

\* lines 148-150: except Exception: continue
ContainerSkipped(f) ==
    [f EXCEPT !.i = f.i + 1, !.skipped = f.skipped \cup {f.i}]

\* lines 74-150: one iteration of the loop. An exception raised while the listing entry is
\* read and its row inserted skips the container; get_logs never raises, and the INSERTs
\* of the log rows follow a successful INSERT on the same cursor.
SyncContainer(t) ==
    /\ frame[t].pc = "sync_loop"
    /\ frame[t].i <= Len(frame[t].containers)
    /\ LET f == frame[t]
           container == f.containers[f.i]
       IN  \/ \E log_text \in FetchedFor(container) :
                 LET tables == TablesAfterInsert(txn[t], container, log_text, clock)
                 IN  /\ txn' = [txn EXCEPT ![t] = tables]
                     /\ db' = Published(db, tables)
                     /\ Set(t, [f EXCEPT !.i = f.i + 1,
                                         !.fetched = IF FetchesLogs(container)
                                                     THEN Append(@, [index |-> f.i, log_text |-> log_text])
                                                     ELSE @])
           \/ /\ Set(t, ContainerSkipped(f))
              /\ UNCHANGED <<db, txn>>
    /\ UNCHANGED <<runtime, extBusy, dbWriter, clock, issued, snapshots, last>>

\* leaving the cursor block: commit, or roll back and raise when the commit fails
SyncCommit(t) ==
    /\ frame[t].pc = "sync_loop"
    /\ frame[t].i > Len(frame[t].containers)
    /\ dbWriter' = 0
    /\ txn' = [txn EXCEPT ![t] = EmptyTables]
    /\ \/ /\ db' = txn[t]
          /\ snapshots' = snapshots \cup {txn[t]}
          /\ last' = LET repeat == /\ last.valid
                                     /\ last.containers = frame[t].containers
                                     /\ last.skipped = frame[t].skipped
                                     /\ last.fetched = frame[t].fetched
                      IN  [valid |-> TRUE, containers |-> frame[t].containers,
                           listed |-> frame[t].listed,
                           skipped |-> frame[t].skipped, fetched |-> frame[t].fetched,
                           repeat |-> repeat, before |-> IF repeat THEN db ELSE EmptyTables]
          /\ Set(t, AfterSync(frame[t]))
       \/ /\ Set(t, SyncRaised(frame[t], "disk I/O error"))
          /\ UNCHANGED <<db, snapshots, last>>
    /\ UNCHANGED <<runtime, extBusy, clock, issued>>

\* lines 117-131: remove the temp directory and return the success outcome
Cleanup(t) ==
    /\ frame[t].pc = "cleanup"
    /\ LET f == frame[t]
       IN  Set(t, [f EXCEPT !.pc = "returned",
                            !.temp_dir = "removed",
                            !.files = {},
                            !.calls = Called(f, "rmtree"),
                            !.result = SuccessOutcome(f.container_name, f.image_name,
                                                      f.port, f.repo_name)])
    /\ UNCHANGED <<runtime, extBusy, db, txn, dbWriter, clock, issued, snapshots, last>>

-----------------------------------------------------------------------------
(* Endpoints of app.py that touch the mirror *)

\* POST /api/sync
ApiSync(t) ==
    /\ frame[t].pc = "idle"
    /\ Set(t, [IdleFrame EXCEPT !.handler = "api_sync", !.pc = "sync"])
    /\ UNCHANGED <<runtime, extBusy, db, txn, dbWriter, clock, issued, snapshots, last>>

\* GET /api/status: get_container_status()
ApiStatus(t) ==
    /\ frame[t].pc = "idle"
    /\ Set(t, [IdleFrame EXCEPT !.handler = "api_status", !.pc = "returned",
                                !.response = "200",
                                !.overlap = (dbWriter # 0),
                                !.seen = [containers |-> db.containers, logs |-> << >>]])
    /\ UNCHANGED <<runtime, extBusy, db, txn, dbWriter, clock, issued, snapshots, last>>

\* GET /api/logs: get_container_logs()
ApiLogs(t) ==
    /\ frame[t].pc = "idle"
    /\ Set(t, [IdleFrame EXCEPT !.handler = "api_logs", !.pc = "returned",
                                !.response = "200",
                                !.overlap = (dbWriter # 0),
                                !.seen = [containers |-> << >>, logs |-> db.logs]])
    /\ UNCHANGED <<runtime, extBusy, db, txn, dbWriter, clock, issued, snapshots, last>>

-----------------------------------------------------------------------------
(* The /webhook endpoint of app.py *)

\* app.py lines 183-207: OPTIONS is answered at once; a POST without the manager gets 500,
\* a JSON null gets 400, a body get_json() rejects ends in the except branch, and any
\* other value is handed to handle_webhook
Webhook(t, method, manager, data) ==
    LET f == [IdleFrame EXCEPT !.handler = "webhook", !.pc = "answered",
                               !.manager = manager, !.payload = data]
    IN  IF method = "OPTIONS"
        THEN /\ frame[t].pc = "idle"
             /\ Set(t, [IdleFrame EXCEPT !.handler = "webhook", !.pc = "answered",
                                         !.response = "200"])
             /\ UNCHANGED <<runtime, extBusy, db, txn, dbWriter, clock, issued, snapshots, last>>
        ELSE IF ~manager
        THEN /\ frame[t].pc = "idle"
             /\ Set(t, [f EXCEPT !.response = "500",
                                 !.body = ErrorBody("PodmanManager not initialized")])
             /\ UNCHANGED <<runtime, extBusy, db, txn, dbWriter, clock, issued, snapshots, last>>
        ELSE IF data.shape = "malformed"
        THEN /\ frame[t].pc = "idle"
             /\ Set(t, [f EXCEPT !.response = "500", !.raised = "BadRequest",
                                 !.body = ErrorBody("BadRequest")])
             /\ UNCHANGED <<runtime, extBusy, db, txn, dbWriter, clock, issued, snapshots, last>>
        ELSE IF data.shape = "null"
        THEN /\ frame[t].pc = "idle"
             /\ Set(t, [f EXCEPT !.response = "400",
                                 !.body = ErrorBody("No JSON data received")])
             /\ UNCHANGED <<runtime, extBusy, db, txn, dbWriter, clock, issued, snapshots, last>>
        ELSE HandleWebhook(t, data)

\* app.py lines 207-219: the outcome is wrapped into the 200 response; an exception that
\* left handle_webhook gives 500 with its text
WebhookAnswers(t) ==
    /\ frame[t].pc = "returned"
    /\ frame[t].handler = "handle_webhook"
    /\ LET f == frame[t]
       IN  IF f.raised # ""
           THEN Set(t, [f EXCEPT !.pc = "answered", !.response = "500",
                                 !.body = ErrorBody(f.raised)])
           ELSE Set(t, [f EXCEPT !.pc = "answered", !.response = Answer(f.result).code,
                                 !.body = Answer(f.result).body])
    /\ UNCHANGED <<runtime, extBusy, db, txn, dbWriter, clock, issued, snapshots, last>>

-----------------------------------------------------------------------------
(* The container endpoints of app.py: start, stop, restart, remove *)

ContainerOps == {"start", "stop", "restart", "remove"}

\* the runtime after the gateway operation op has run its podman commands on target
AfterOp(rt, op, target) ==
    IF op = "start" THEN PodmanStart(rt, target)
    ELSE IF op = "stop" THEN PodmanStop(rt, target)
    ELSE IF op = "restart" THEN PodmanRestart(rt, target)
    ELSE PodmanRm(PodmanStop(rt, target), target)

\* the output of the command whose result the operation inspects; remove_container
\* stops the container before it runs podman rm
OpOutput(rt, op, target) ==
    IF op = "remove" THEN _run_cmd(PodmanStop(rt, target), "rm", target)
    ELSE _run_cmd(rt, op, target)

\* an endpoint that resyncs whatever the operation returned
AfterOpAlwaysSyncs(f, success) ==
    [f EXCEPT !.success = success, !.pc = "sync"]

\* app.py lines 426-433: sync_with_db after a True result, else the 500 response
AfterOpResult(f, success) ==
    IF success
    THEN [f EXCEPT !.success = TRUE, !.pc = "sync"]
    ELSE [f EXCEPT !.success = FALSE, !.pc = "returned", !.response = "500"]

\* POST /api/containers/<op>: 400 without a container name, 500 without the manager,
\* else the gateway operation and what follows from its result
ApiContainer(t, op, manager, container_name) ==
    /\ frame[t].pc = "idle"
    /\ LET f == [IdleFrame EXCEPT !.handler = "api_" \o op \o "_container",
                                  !.manager = manager,
                                  !.container_name = container_name]
       IN  IF container_name = ""
           THEN /\ Set(t, [f EXCEPT !.pc = "returned", !.response = "400"])
                /\ UNCHANGED runtime
           ELSE IF ~manager
           THEN /\ Set(t, [f EXCEPT !.pc = "returned", !.response = "500"])
                /\ UNCHANGED runtime
           ELSE \E listed, spawned \in BOOLEAN :
                   LET target_name == TargetName(get_containers(listed), container_name)
                       result == OpOutput(runtime, op, target_name)
                       g == [f EXCEPT !.calls = <<op>>]
                   IN  /\ runtime' = IF spawned THEN AfterOp(runtime, op, target_name)
                                     ELSE runtime
                       /\ Set(t, AfterOpResult(g, GatewayResult(spawned, result)))
    /\ UNCHANGED <<extBusy, db, txn, dbWriter, clock, issued, snapshots, last>>

-----------------------------------------------------------------------------
(* Initial states *)

InitialRuntimes ==
    { << >>,
      <<Container("autopod-test-app-container", "a1", "running", "Up 3 hours", 8081)>>,
      <<Container("autopod-widget-container", "b2", "running", "Up 292 years ago", 8082),
        Container("widget", "c3", "running", "Up 3 hours", 8083)>>,
      <<Container("db", "d4", "exited", "Exited (0) 2 days ago", 0)>> }

InitialTables ==
    { EmptyTables,
      [containers |-> <<[container_name |-> "old-app", status |-> "Running", created_at |-> 0]>>,
       logs |-> <<[container_name |-> "old-app", log |-> "started", timestamp |-> 0]>>] }

InitialBusy == { {}, {PreferredStart}, PreferredStart..(PreferredStart + PortSpan) }

Init ==
    /\ frame = [t \in Threads |-> IdleFrame]
    /\ runtime \in InitialRuntimes
    /\ extBusy \in InitialBusy
    /\ db \in InitialTables
    /\ txn = [t \in Threads |-> EmptyTables]
    /\ dbWriter = 0
    /\ clock = 1
    /\ issued = {}
    /\ snapshots = {db}
    /\ last = [valid |-> FALSE, containers |-> << >>, listed |-> FALSE, skipped |-> {},
               fetched |-> << >>, repeat |-> FALSE, before |-> EmptyTables]

\* another process binds the port a deployment has just found free (no reservation
\* is held between find_available_port and podman run)
PortTaken(t) ==
    /\ frame[t].pc = "run"
    /\ frame[t].port \notin extBusy
    /\ extBusy' = extBusy \cup {frame[t].port}
    /\ UNCHANGED <<frame, runtime, db, txn, dbWriter, clock, issued, snapshots, last>>

\* outside the application a container is removed (podman rm -f)
RuntimeChange ==
    /\ \E i \in 1..Len(runtime) :
          runtime' = SubSeq(runtime, 1, i - 1) \o SubSeq(runtime, i + 1, Len(runtime))
    /\ UNCHANGED <<frame, extBusy, db, txn, dbWriter, clock, issued, snapshots, last>>

\* the steps of sync_with_db
SyncStep(t) ==
    \/ SyncList(t)
    \/ SyncDelete(t)
    \/ SyncContainer(t)
    \/ SyncCommit(t)

\* one webhook delivery, handled by thread 1
Next ==
    \/ \E p \in Payloads : HandleWebhook(1, p)
    \/ Materialize(1)
    \/ BuildImage(1)
    \/ StopContainer(1)
    \/ RemoveContainer(1)
    \/ FindPort(1)
    \/ PortTaken(1)
    \/ RunContainer(1)
    \/ SyncStep(1)
    \/ Cleanup(1)

Spec == Init /\ [][Next]_vars

\* the dashboard's requests, one per thread, running concurrently
NextMirror ==
    \/ \E t \in Threads :
          \/ ApiSync(t)
          \/ SyncStep(t)
          \/ ApiStatus(t)
          \/ ApiLogs(t)
    \/ RuntimeChange

InitMirror == Init /\ extBusy = {}

SpecMirror == InitMirror /\ [][NextMirror]_vars

\* deliveries for the same and for different targets: two URLs with the slug "widget"
\* and a name without a URL
RedeployPayloads == {WidgetPayload, ForkPayload, NoUrlPayload}

\* a delivery is handled once the deliveries before it have returned
Redeliver(t, p) ==
    /\ \A u \in Threads : u < t => frame[u].pc = "returned"
    /\ HandleWebhook(t, p)

\* webhook deliveries handled one after the other, each by its own request thread
NextRedeploy ==
    \E t \in Threads :
        \/ \E p \in RedeployPayloads : Redeliver(t, p)
        \/ Materialize(t)
        \/ BuildImage(t)
        \/ StopContainer(t)
        \/ RemoveContainer(t)
        \/ FindPort(t)
        \/ RunContainer(t)
        \/ SyncStep(t)
        \/ Cleanup(t)

InitRedeploy == Init /\ runtime = << >> /\ extBusy = {} /\ db = EmptyTables

SpecRedeploy == InitRedeploy /\ [][NextRedeploy]_vars

\* outside the application a container named "widget" is started (podman run --name widget)
ForeignContainerAppears ==
    /\ \A i \in 1..Len(runtime) : runtime[i].Names[1] # "widget"
    /\ ~PortHeld(runtime, 8090)
    /\ runtime' = Append(runtime, Container("widget", "c3", "running", "Up 1 second", 8090))
    /\ UNCHANGED <<frame, extBusy, db, txn, dbWriter, clock, issued, snapshots, last>>

\* two repositories named widget, of the owners acme and Other
SameNamePayloads == {WidgetPayload, ForkPayload}

\* deliveries for two repositories named widget, one after the other, on a runtime that
\* other users of podman share
NextShared ==
    \/ ForeignContainerAppears
    \/ \E t \in Threads :
          \/ \E p \in SameNamePayloads : Redeliver(t, p)
          \/ Materialize(t)
          \/ BuildImage(t)
          \/ StopContainer(t)
          \/ RemoveContainer(t)
          \/ FindPort(t)
          \/ RunContainer(t)
          \/ SyncStep(t)
          \/ Cleanup(t)

SpecShared == InitRedeploy /\ [][NextShared]_vars

\* the two request threads that handle concurrent deliveries for one target
RaceThreads == {1, 2}

\* deliveries for the repository identity "widget", from two URLs
RacePayloads == {WidgetPayload, ForkPayload}

\* the same steps under a per-target mutex, taken by the stop and released after the run
DeployStepOnePerTarget(t) ==
    /\ \A u \in Threads \ {t} :
          ~(/\ frame[u].pc \in {"remove", "port", "run"}
            /\ frame[u].container_name = frame[t].container_name)
    /\ \/ StopContainer(t)
       \/ RemoveContainer(t)
       \/ FindPort(t)
       \/ RunContainer(t)

\* the steps of handle_webhook between the build and the end of the run; no lock is taken
DeployStep(t) ==
    \/ StopContainer(t)
    \/ RemoveContainer(t)
    \/ FindPort(t)
    \/ RunContainer(t)

\* concurrent webhook deliveries for the same target
NextRace ==
    \E t \in RaceThreads :
        \/ \E p \in RacePayloads : HandleWebhook(t, p)
        \/ Materialize(t)
        \/ BuildImage(t)
        \/ DeployStep(t)
        \/ SyncStep(t)
        \/ Cleanup(t)

SpecRace == InitRedeploy /\ [][NextRace]_vars

\* raw Status and State values of `podman ps -a --format json`, the clock-bug artifact
\* and strings matching several patterns among them; "unknown" is the default of
\* container.get("Status", "unknown")
RawStatuses ==
    {"Up 3 hours", "Exited (0) 2 days ago", "Created", "Up 292 years ago",
     "Exited (1) 292 years ago", "Created 292 years ago", "Exited (0) Up to date",
     "Up since Created", "Paused", "Stopping", "unknown", "up 3 hours", ""}

RawStates == {"running", "exited", "created", "Running"}

\* listings of one container in every raw status and state
StatusListings ==
    { <<Container("web", "e5", state, status, 0)>> : status \in RawStatuses, state \in RawStates }

InitResync ==
    /\ frame = [t \in Threads |-> IdleFrame]
    /\ runtime \in StatusListings
    /\ extBusy = {}
    /\ db = EmptyTables
    /\ txn = [t \in Threads |-> EmptyTables]
    /\ dbWriter = 0
    /\ clock = 1
    /\ issued = {}
    /\ snapshots = {db}
    /\ last = [valid |-> FALSE, containers |-> << >>, listed |-> FALSE, skipped |-> {},
               fetched |-> << >>, repeat |-> FALSE, before |-> EmptyTables]

\* one POST /api/sync
NextResync ==
    \/ ApiSync(1)
    \/ SyncStep(1)

SpecResync == InitResync /\ [][NextResync]_vars

\* the runtimes the container endpoints are exercised on
ControlRuntimes ==
    { << >>,
      <<Container("web", "a1", "running", "Up 3 hours", 8081),
        Container("db", "d4", "exited", "Exited (0) 2 days ago", 0)>>,
      <<Container("error-pages", "e5", "running", "Up 3 hours", 8082)>> }

\* the container names the dashboard sends
RequestedNames == {"", "web", "db", "error-pages", "gone"}

\* the request threads that serve the container endpoints
ControlThreads == {1, 2}

InitControl ==
    /\ frame = [t \in Threads |-> IdleFrame]
    /\ runtime \in ControlRuntimes
    /\ extBusy = {}
    /\ db \in InitialTables
    /\ txn = [t \in Threads |-> EmptyTables]
    /\ dbWriter = 0
    /\ clock = 1
    /\ issued = {}
    /\ snapshots = {db}
    /\ last = [valid |-> FALSE, containers |-> << >>, listed |-> FALSE, skipped |-> {},
               fetched |-> << >>, repeat |-> FALSE, before |-> EmptyTables]

\* requests to the four container endpoints, served concurrently
NextControl ==
    \E t \in ControlThreads :
        \/ \E op \in ContainerOps, manager \in BOOLEAN, container_name \in RequestedNames :
              ApiContainer(t, op, manager, container_name)
        \/ SyncStep(t)

SpecControl == InitControl /\ [][NextControl]_vars

Methods == {"POST", "OPTIONS"}

\* one request to /webhook, handled by thread 1 up to its response
NextEndpoint ==
    \/ \E method \in Methods, manager \in BOOLEAN, data \in Bodies : Webhook(1, method, manager, data)
    \/ Materialize(1)
    \/ BuildImage(1)
    \/ StopContainer(1)
    \/ RemoveContainer(1)
    \/ FindPort(1)
    \/ RunContainer(1)
    \/ SyncStep(1)
    \/ Cleanup(1)
    \/ WebhookAnswers(1)

SpecEndpoint == Init /\ [][NextEndpoint]_vars

-----------------------------------------------------------------------------
(* Properties of one deployment (specification Spec) *)

Webhooks == {t \in Threads : frame[t].handler = "handle_webhook"}

Returned(t) == frame[t].pc = "returned"

Invoked(t, op) == \E k \in 1..Len(frame[t].calls) : frame[t].calls[k] = op

\* C1: every return of handle_webhook that follows the creation of the temporary
\* directory (success, build failure, run failure, exception) has removed the directory.
C1_TempDirRemovedOnEveryReturn ==
    \A t \in Webhooks :
        (Returned(t) /\ Invoked(t, "mkdtemp")) => frame[t].temp_dir = "removed"

\* C2: whenever the runtime fails to start the new container (podman run exits with an
\* error), handle_webhook returns an error outcome for the run stage, never success.
C2_RunFailureGivesErrorOutcome ==
    \A t \in Webhooks :
        (Returned(t) /\ Invoked(t, "run") /\ ~frame[t].started)
            => frame[t].result.status = "error"

\* C3: a resync that fails or raises after the new container was started never turns
\* the outcome into an error: handle_webhook still returns the success outcome.
C3_ResyncFailureIsNotFatal ==
    \A t \in Webhooks :
        (Returned(t) /\ frame[t].started /\ Invoked(t, "sync"))
            => frame[t].result.status = "success"

\* C4: a payload with neither a repository descriptor nor a test marker gets an error
\* outcome and no mutation: no temp directory, no clone/build/stop/remove/run/resync.
C4_InvalidPayloadRejectedWithoutMutation ==
    \A t \in Webhooks :
        (Returned(t) /\ ~frame[t].payload.hasRepository /\ ~frame[t].payload.hasTest)
            => /\ frame[t].result.status = "error"
               /\ frame[t].temp_dir = "none"
               /\ frame[t].calls = << >>
               /\ issued = {}

\* C5: whenever build_image returns False, the outcome has status "error" with a message
\* naming the build failure, and neither run_container nor sync_with_db is invoked.
C5_BuildFailureStopsTheDeployment ==
    \A t \in Webhooks :
        (Invoked(t, "build") /\ ~frame[t].build_success)
            => /\ Returned(t)
               /\ frame[t].result.status = "error"
               /\ Contains(frame[t].result.message, "build failed")
               /\ Contains(frame[t].result.message, frame[t].image_name)
               /\ ~Invoked(t, "run")
               /\ ~Invoked(t, "sync")

\* C5 witness: a build on a present descriptor failed and the invocation has returned
C5_Witness ==
    \E t \in Webhooks :
        /\ Returned(t)
        /\ Invoked(t, "build")
        /\ ~frame[t].build_success
        /\ HasDescriptor(frame[t].files)

\* C6: a deployment issues stop and remove only against the container whose name is
\* exactly its container_name, whatever containers the runtime holds.
C6_OnlyTheTargetIsStoppedOrRemoved ==
    \A c \in issued : c.target = c.by

PortRange == PreferredStart..(PreferredStart + PortSpan)

\* C11: for the payload {"test": true} with the image build and the container start
\* succeeding, the repository name is "test-app", the demo project is synthesized and no
\* clone is attempted, build and run are performed, and the outcome has status "success"
\* and a port in [8081, 8131].
C11_TestPayloadDeploysTheDemo ==
    \A t \in Webhooks :
        (Returned(t) /\ frame[t].payload = TestPayload /\ frame[t].build_success /\ frame[t].started)
            => /\ frame[t].repo_name = "test-app"
               /\ Invoked(t, "demo")
               /\ ~Invoked(t, "clone")
               /\ Invoked(t, "build")
               /\ Invoked(t, "run")
               /\ frame[t].result.status = "success"
               /\ frame[t].result.port \in PortRange

\* an invocation whose payload carries a GitHub clone URL and whose clone failed
CloneFailed(t) ==
    /\ frame[t].payload.hasRepository
    /\ StartsWith(frame[t].repo_url, "https://github.com/")
    /\ Invoked(t, "clone")
    /\ ~frame[t].clone_success

\* C12: after a failed clone of a GitHub URL the demo project is synthesized in the working
\* directory, the image and container names use the slug derived from the URL, and the
\* deployment returns the success outcome when build and run succeed.
C12_CloneFailureFallsBackToDemo ==
    \A t \in Webhooks :
        CloneFailed(t)
            => /\ Invoked(t, "demo")
               /\ frame[t].pc = "build" => frame[t].files = DemoFiles
               /\ Invoked(t, "build")
                     => /\ frame[t].image_name = "autopod-" \o extract_repo_name_from_url(frame[t].repo_url)
                        /\ frame[t].container_name = frame[t].image_name \o "-container"
               /\ (Returned(t) /\ frame[t].build_success /\ frame[t].started)
                     => frame[t].result.status = "success"

\* C13: every success outcome carries a port within [8081, 8081+50], its access_url
\* embeds exactly that port, and that port is the host side of the host:80 mapping
\* passed to run_container in the same invocation.
C13_SuccessPortIsTheMappedPort ==
    \A t \in Webhooks :
        frame[t].result.status = "success"
            => /\ frame[t].result.port \in PortRange
               /\ frame[t].result.access_url = "http://127.0.0.1:" \o ToString(frame[t].result.port)
               /\ frame[t].ports = ToString(frame[t].result.port) \o ":80"

\* C13 witness: a success outcome of a started container on a port other than the
\* preferred one
C13_Witness ==
    \E t \in Webhooks :
        /\ frame[t].result.status = "success"
        /\ frame[t].started
        /\ frame[t].result.port > PreferredStart

\* the payload has neither a repository descriptor nor a test marker
InvalidPayload(t) ==
    ~(Truthy(frame[t].payload) /\ (frame[t].payload.hasRepository \/ frame[t].payload.hasTest))

\* C18: every error outcome of handle_webhook is caused by an invalid payload, a failed
\* build or a failed run; a failure of clone, stop, remove, port allocation, resync or
\* cleanup alone never makes the outcome an error.
C18_OnlyPayloadBuildRunAreFatal ==
    \A t \in Webhooks :
        frame[t].result.status = "error"
            => \/ InvalidPayload(t)
               \/ Invoked(t, "build") /\ ~frame[t].build_success
               \/ Invoked(t, "run") /\ ~frame[t].started

\* C19: for every payload handle_webhook ends by returning an outcome with status
\* "success" or "error" and a message; no exception escapes to its caller.
C19_AlwaysAStructuredOutcome ==
    \A t \in Webhooks :
        Returned(t)
            => /\ frame[t].raised = ""
               /\ frame[t].result.status \in {"success", "error"}
               /\ frame[t].result.message # ""

\* C20 as stated: a success outcome has exactly the fields status, message,
\* container_name, image_name, port, access_url and repository_name, an error outcome
\* exactly status and message.
C20_OutcomeFields ==
    \A t \in Webhooks :
        /\ frame[t].result.status = "success"
              => frame[t].result.keys = {"status", "message", "container_name", "image_name",
                                         "port", "access_url", "repository_name"}
        /\ frame[t].result.status = "error" => frame[t].result.keys = {"status", "message"}

\* C20 as amended: a success outcome has exactly the fields status, message,
\* container_name, image_name, port, access_url and repo_name, with the resolved
\* repository name under repo_name; an error outcome has exactly status and message.
C20_OutcomeFieldsRepoName ==
    \A t \in Webhooks :
        /\ frame[t].result.status = "success"
              => /\ frame[t].result.keys = {"status", "message", "container_name", "image_name",
                                            "port", "access_url", "repo_name"}
                 /\ frame[t].result.repo_name = ResolvedRepoName(frame[t].payload)
                 /\ frame[t].result.container_name = frame[t].container_name
                 /\ frame[t].result.image_name = frame[t].image_name
        /\ frame[t].result.status = "error" => frame[t].result.keys = {"status", "message"}

\* C20 witness: a success outcome carrying the slug of the delivered URL
C20_Witness ==
    \E t \in Webhooks :
        /\ frame[t].payload = WidgetPayload
        /\ frame[t].result.status = "success"
        /\ frame[t].result.repo_name = "widget"

\* C21: whenever handle_webhook is about to invoke build_image, the working directory
\* holds a Containerfile or a Dockerfile, whichever way the source was materialized.
C21_BuildInputHasDescriptor ==
    \A t \in Webhooks :
        frame[t].pc = "build" => HasDescriptor(frame[t].files)

\* C21 witness: a clone that succeeded without a build descriptor was completed by the
\* demo project and is about to be built
C21_Witness ==
    \E t \in Webhooks :
        /\ frame[t].pc = "build"
        /\ frame[t].clone_success
        /\ File("README.md", "repo") \in frame[t].files
        /\ File("Containerfile", "demo") \in frame[t].files

\* the calls a deployment makes from the build to the cleanup, in the order of the code
DeploySteps == <<"build", "stop", "remove", "find_port", "run", "sync", "rmtree">>

\* the ways the source is materialized: demo alone, clone alone, clone then demo
MaterializeSteps == {<<"demo">>, <<"clone">>, <<"clone", "demo">>}

\* C23: in every invocation that returns success the operations took place exactly in
\* the order: create the directory, materialize the source, build, stop, remove, allocate
\* the port, run, resync, clean up; each once, none skipped.
C23_StepsInOrder ==
    \A t \in Webhooks :
        frame[t].result.status = "success"
            => \E m \in MaterializeSteps : frame[t].calls = <<"mkdtemp">> \o m \o DeploySteps

\* C23 witness: a success outcome after a clone completed by the demo project
C23_Witness ==
    \E t \in Webhooks :
        /\ frame[t].result.status = "success"
        /\ frame[t].calls = <<"mkdtemp", "clone", "demo">> \o DeploySteps

\* C25: find_available_port(8081) returns the lowest port of [8081, 8131] that is
\* bindable when it is probed, after probing every port below it once and in ascending
\* order; when none of the 51 ports is bindable it returns 8081. Its result is always
\* within [8081, 8131] and it makes at most 51 probes.
C25_LowestBindablePort ==
    [][\A t \in Threads :
          (frame[t].pc = "port" /\ frame'[t].pc = "run")
              => LET free == {p \in PortRange : Bindable(p)}
                     port == frame'[t].port
                     probes == frame'[t].probes
                 IN  /\ port \in PortRange
                     /\ probes <= PortSpan + 1
                     /\ free # {} => /\ port \in free
                                     /\ \A q \in free : port <= q
                                     /\ probes = port - PreferredStart + 1
                     /\ free = {} => port = PreferredStart /\ probes = PortSpan + 1]_vars

\* C25 witness: the search has passed three ports in use and returned the fourth
C25_Witness ==
    \E t \in Webhooks :
        /\ frame[t].pc = "run"
        /\ frame[t].port = PreferredStart + 3
        /\ frame[t].probes = 4

\* the payload carries a repository descriptor with a clone URL
HasCloneUrl(p) == p.hasRepository /\ p.repository.hasUrl

\* C26: a payload is accepted (a working directory is created for it) only if it carries
\* a repository descriptor with a clone URL or the test marker; every other payload,
\* also one whose repository descriptor has no clone URL, is rejected with the
\* invalid-payload error, and no demo project is synthesized for it.
C26_PayloadClassification ==
    \A t \in Webhooks :
        LET p == frame[t].payload
        IN  /\ Invoked(t, "mkdtemp") => (HasCloneUrl(p) \/ p.hasTest)
            /\ ~(HasCloneUrl(p) \/ p.hasTest)
                  => /\ Returned(t)
                     /\ frame[t].result.status = "error"
                     /\ StartsWith(frame[t].result.message, "Invalid webhook payload")
                     /\ ~Invoked(t, "demo")

\* the invocation has a working directory and is past the materialization of the source
Materialized(t) ==
    Invoked(t, "mkdtemp") /\ frame[t].pc # "materialize"

\* the position of the first call of op in the invocation's calls, 0 if there is none
FirstCall(t, op) ==
    IF Invoked(t, op)
    THEN CHOOSE k \in 1..Len(frame[t].calls) :
            /\ frame[t].calls[k] = op
            /\ \A j \in 1..(k - 1) : frame[t].calls[j] # op
    ELSE 0

\* C27 as stated: a clone is attempted exactly when the accepted payload supplies a clone
\* URL, and then before any demo synthesis; with no clone URL no clone is attempted and
\* the demo project is synthesized.
C27_CloneExactlyWithUrl ==
    \A t \in Webhooks :
        Materialized(t)
            => /\ Invoked(t, "clone") <=> frame[t].repo_url # ""
               /\ (Invoked(t, "clone") /\ Invoked(t, "demo"))
                     => FirstCall(t, "clone") < FirstCall(t, "demo")
               /\ frame[t].repo_url = "" => Invoked(t, "demo")

\* C27 as amended: a clone is attempted exactly when the accepted payload supplies a clone
\* URL that starts with https://github.com/, and then before any demo synthesis; with no
\* clone URL or any other URL no clone is attempted and the demo project is synthesized.
C27_CloneExactlyWithGithubUrl ==
    \A t \in Webhooks :
        Materialized(t)
            => /\ Invoked(t, "clone") <=> StartsWith(frame[t].repo_url, "https://github.com/")
               /\ (Invoked(t, "clone") /\ Invoked(t, "demo"))
                     => FirstCall(t, "clone") < FirstCall(t, "demo")
               /\ ~StartsWith(frame[t].repo_url, "https://github.com/") => Invoked(t, "demo")

\* C27 witness: a GitHub URL was cloned and the demo project synthesized after it
C27_Witness ==
    \E t \in Webhooks :
        /\ frame[t].pc = "build"
        /\ StartsWith(frame[t].repo_url, "https://github.com/")
        /\ frame[t].calls = <<"mkdtemp", "clone", "demo">>

\* the extraction of a slug from the URL failed or gave the default sentinel
NoSlug(repo_url) == extract_repo_name_from_url(repo_url) \in {"", "webhook-app"}

\* C28 as stated: with a clone URL present, the repository name behind image_name and
\* container_name is the slug derived from the URL, and the fixed default slug
\* "webhook-app" when the extraction fails or yields the default sentinel.
C28_NameIsUrlSlugOrDefault ==
    \A t \in Webhooks :
        (Invoked(t, "build") /\ frame[t].repo_url # "")
            => LET repo_name == IF NoSlug(frame[t].repo_url) THEN "webhook-app"
                                ELSE extract_repo_name_from_url(frame[t].repo_url)
               IN  /\ frame[t].repo_name = repo_name
                   /\ frame[t].image_name = "autopod-" \o repo_name
                   /\ frame[t].container_name = "autopod-" \o repo_name \o "-container"

\* C28 as amended: with a clone URL present, the repository name is the slug derived
\* from the URL; when the extraction fails or yields the sentinel it is the name field of
\* the repository descriptor, and "webhook-app" only when the descriptor has no name.
\* image_name is "autopod-" and that name in lower case with "-" for each blank.
C28_NameIsUrlSlugOrListedName ==
    \A t \in Webhooks :
        (Invoked(t, "build") /\ frame[t].repo_url # "")
            => LET repository == frame[t].payload.repository
                   repo_name == IF ~NoSlug(frame[t].repo_url)
                                THEN extract_repo_name_from_url(frame[t].repo_url)
                                ELSE IF repository.hasName THEN repository.name
                                ELSE "webhook-app"
                   image_name == "autopod-" \o Replace(ToLower(repo_name), " ", "-")
               IN  /\ frame[t].repo_name = repo_name
                   /\ frame[t].image_name = image_name
                   /\ frame[t].container_name = image_name \o "-container"

\* C28 witness: the image is named after the slug of the URL, not after the name field
C28_Witness ==
    \E t \in Webhooks :
        /\ Invoked(t, "build")
        /\ frame[t].repo_url = "https://github.com/Other/Widget/"
        /\ frame[t].payload.repository.name = "Widget"
        /\ frame[t].repo_name = "widget"
        /\ frame[t].image_name = "autopod-widget"

\* C34: when the clone succeeds and the cloned tree holds a Dockerfile or a Containerfile,
\* create_demo_project is not invoked: the build input is the cloned tree, every file of
\* it as the repository has it, and so the image is built from the repository's own
\* descriptor.
C34_ClonedDescriptorIsKept ==
    \A t \in Webhooks :
        (Materialized(t) /\ frame[t].clone_success /\ HasDescriptor(frame[t].tree))
            => /\ ~Invoked(t, "demo")
               /\ frame[t].pc = "build"
                     => /\ frame[t].files = frame[t].tree
                        /\ \A file \in frame[t].files : file.origin = "repo"
                        /\ HasDescriptor(frame[t].files)

\* C34 witness: a cloned tree with its own Containerfile and page has been built
C34_Witness ==
    \E t \in Webhooks :
        /\ frame[t].clone_success
        /\ File("Containerfile", "repo") \in frame[t].tree
        /\ File("index.html", "repo") \in frame[t].tree
        /\ Invoked(t, "build")
        /\ frame[t].build_success

-----------------------------------------------------------------------------
(* Properties of the /webhook endpoint (specification SpecEndpoint) *)

\* requests to /webhook that were answered
Answered == {t \in Threads : frame[t].pc = "answered"}

\* the body of the request held no JSON value
NoJson(t) == frame[t].payload.shape \in {"null", "malformed"}

\* C32: /webhook answers 200 with top-level status "success" and message "Deployment
\* completed successfully" for every outcome handle_webhook returns without raising,
\* outcomes of status "error" included; it answers with an error status only when the
\* manager is missing, the body has no JSON, or handle_webhook raised.
C32_EveryOutcomeIsAnsweredAsSuccess ==
    \A t \in Answered :
        /\ (frame[t].handler = "handle_webhook" /\ frame[t].raised = "")
              => /\ frame[t].result.status \in {"success", "error"}
                 /\ frame[t].response = "200"
                 /\ frame[t].body.status = "success"
                 /\ frame[t].body.message = "Deployment completed successfully"
                 /\ frame[t].body.data = frame[t].result
        /\ (frame[t].response # "200" \/ frame[t].body.status = "error")
              => \/ ~frame[t].manager
                 \/ NoJson(t)
                 \/ (frame[t].handler = "handle_webhook" /\ frame[t].raised # "")

\* C32 witness: a delivery whose build failed was answered 200 "success" around the
\* error outcome
C32_Witness ==
    \E t \in Answered :
        /\ Invoked(t, "build")
        /\ ~frame[t].build_success
        /\ frame[t].result.status = "error"
        /\ frame[t].response = "200"
        /\ frame[t].body.status = "success"

-----------------------------------------------------------------------------
(* Properties of the container endpoints (specification SpecControl) *)

\* requests to the start, stop, restart and remove endpoints
Controls ==
    {t \in Threads : \E op \in ContainerOps : frame[t].handler = "api_" \o op \o "_container"}

\* the request has called the gateway operation of its endpoint
Operated(t) == \E op \in ContainerOps : Invoked(t, op)

\* C33: on the start, stop, restart and remove endpoints sync_with_db is invoked exactly
\* when the gateway operation returned True, after the operation and before the
\* response; when the operation returns False the endpoint answers an error, and no
\* step of that request changes the mirror tables.
C33_ResyncExactlyAfterSuccess ==
    /\ [](\A t \in Controls :
            /\ Invoked(t, "sync")
                  => /\ frame[t].success
                     /\ Operated(t)
                     /\ frame[t].calls[1] \in ContainerOps
                     /\ FirstCall(t, "sync") = 2
            /\ (Returned(t) /\ frame[t].success) => Invoked(t, "sync")
            /\ (Operated(t) /\ ~frame[t].success)
                  => /\ Returned(t)
                     /\ frame[t].response = "500"
                     /\ ~Invoked(t, "sync"))
    /\ [][\A t \in Threads :
            (frame'[t] # frame[t] /\ ~frame'[t].success)
                => (db' = db /\ txn' = txn)]_vars

\* C33 witness: a stop that returned False for a container that exists has been
\* answered with an error, and another request's operation was followed by a resync
C33_Witness ==
    \E t, u \in Controls :
        /\ frame[t].handler = "api_stop_container"
        /\ frame[t].container_name = "error-pages"
        /\ Returned(t) /\ Operated(t) /\ ~frame[t].success
        /\ frame[t].response = "500"
        /\ db.containers # << >>
        /\ Returned(u) /\ frame[u].success /\ frame[u].response = "200"

-----------------------------------------------------------------------------
(* Properties of repeated deliveries (specification SpecRedeploy) *)

\* C14: any two invocations of handle_webhook that resolve to the same repository name
\* use the same image_name and the same container_name, whatever their temporary
\* directory, port, clone result, and whatever was deployed before.
C14_NamesDependOnTheSlugOnly ==
    \A t, u \in Webhooks :
        (Invoked(t, "build") /\ Invoked(u, "build") /\ frame[t].repo_name = frame[u].repo_name)
            => /\ frame[t].image_name = frame[u].image_name
               /\ frame[t].container_name = frame[u].container_name

\* C14 witness: a redelivery for the slug of an earlier, started deployment, from another
\* URL and with the other clone result
C14_Witness ==
    \E t, u \in Webhooks :
        /\ t < u
        /\ Returned(t) /\ frame[t].started
        /\ Invoked(u, "run")
        /\ frame[t].repo_name = frame[u].repo_name
        /\ frame[t].repo_url # frame[u].repo_url
        /\ frame[t].clone_success # frame[u].clone_success
        /\ frame[u].image_name = "autopod-widget"

\* the target of an invocation is in the runtime and running
TargetRunning(t) ==
    \E i \in 1..Len(runtime) :
        /\ runtime[i].Names[1] = frame[t].container_name
        /\ runtime[i].State = "running"

\* C29: stop_container and remove_container are invoked only after build_image returned
\* True in the same invocation, and no step of an invocation whose build has not
\* succeeded changes the runtime or issues a podman stop or rm: a failed build leaves
\* the previously deployed container of the target untouched.
C29_FailedBuildLeavesTheInstance ==
    /\ [](\A t \in Webhooks :
            (Invoked(t, "stop") \/ Invoked(t, "remove"))
                => /\ frame[t].build_success
                   /\ Invoked(t, "build")
                   /\ FirstCall(t, "build") < FirstCall(t, "stop")
                   /\ Invoked(t, "remove") => FirstCall(t, "stop") < FirstCall(t, "remove"))
    /\ [][\A t \in Threads :
            (frame'[t] # frame[t] /\ ~frame'[t].build_success)
                => (runtime' = runtime /\ issued' = issued)]_vars

\* C29 witness: a redelivery for a running target has returned with a failed build, and
\* the target is still running
C29_Witness ==
    \E t, u \in Webhooks :
        /\ t < u
        /\ frame[t].started
        /\ frame[u].container_name = frame[t].container_name
        /\ Returned(u)
        /\ Invoked(u, "build")
        /\ ~frame[u].build_success
        /\ TargetRunning(u)

\* the owner in https://github.com/<owner>/<repository>
Owner(repo_url) ==
    LET parts == Split(repo_url, "/")
    IN  IF Len(parts) >= 4 THEN parts[4] ELSE ""

\* a container of that name is in the runtime
Deployed(container_name) ==
    \E i \in 1..Len(runtime) : runtime[i].Names[1] = container_name

\* C35: two repositories of the same name under different owners resolve to the same
\* image_name and container_name, and deploying one stops and removes the container
\* deployed for the other: once the later deployment is past its stop and remove, the
\* earlier container is gone from the runtime.
C35_SameNameSharesTheContainer ==
    \A t, u \in Webhooks :
        (/\ t < u
         /\ frame[t].started
         /\ Invoked(u, "build")
         /\ Owner(frame[t].repo_url) # Owner(frame[u].repo_url)
         /\ frame[t].repo_name = frame[u].repo_name)
            => /\ frame[u].image_name = frame[t].image_name
               /\ frame[u].container_name = frame[t].container_name
               /\ frame[u].pc \in {"port", "run"} => ~Deployed(frame[t].container_name)

-----------------------------------------------------------------------------
(* Properties of concurrent deliveries (specification SpecRace) *)

\* the invocation is past a successful build and before the end of the run step
Deploying(t) ==
    /\ frame[t].handler = "handle_webhook"
    /\ frame[t].pc \in {"stop", "remove", "port", "run"}

\* C22: deployments are not serialized per target. Two invocations for the same
\* container_name can both be between their build and the end of their run, and then
\* neither waits for the other: each can take its next stop, remove, port or run step,
\* so the steps of the two interleave.
C22_DeploymentsAreNotSerialized ==
    \A t, u \in RaceThreads :
        (t # u /\ Deploying(t) /\ Deploying(u)
               /\ frame[u].container_name = frame[t].container_name)
            => ENABLED DeployStep(t) /\ ENABLED DeployStep(u)

\* C22 witness: the container one invocation has just started has been removed by the
\* other invocation for the same container_name, which is now about to allocate its port
C22_Witness ==
    \E t, u \in RaceThreads :
        /\ t # u
        /\ frame[t].started /\ frame[t].pc = "sync"
        /\ frame[u].pc = "port"
        /\ frame[u].container_name = frame[t].container_name
        /\ \E c \in issued : c.cmd = "rm" /\ c.target = frame[t].container_name
        /\ \A i \in 1..Len(runtime) : runtime[i].Names[1] # frame[t].container_name

-----------------------------------------------------------------------------
(* Properties of the mirror (specification SpecMirror) *)

\* the container rows a resync inserts for a listing, the skipped entries left out
RECURSIVE RowsOf(_, _, _)
RowsOf(containers, skipped, k) ==
    IF k > Len(containers) THEN << >>
    ELSE (IF k \in skipped THEN << >> ELSE <<ContainerRow(containers[k], 0)>>)
         \o RowsOf(containers, skipped, k + 1)

\* rows without their timestamps
Plain(rows) ==
    [k \in 1..Len(rows) |-> [container_name |-> rows[k].container_name, status |-> rows[k].status]]

\* threads between their DELETE statements and the end of their inserts
Rewriting == {t \in Threads : frame[t].pc = "sync_loop"}

C8_OneRowPerContainerName ==
    last.valid =>
        \A i, j \in 1..Len(db.containers) :
            db.containers[i].container_name = db.containers[j].container_name => i = j

\* C8 witness: two syncs have completed and the table holds several rows
C8_Witness ==
    /\ last.valid
    /\ Len(db.containers) >= 2
    /\ Cardinality({t \in Threads : frame[t].handler = "api_sync" /\ frame[t].response = "200"}) >= 2

PlainLogs(rows) ==
    [k \in 1..Len(rows) |-> [container_name |-> rows[k].container_name, log |-> rows[k].log]]

\* C15 as stated: a resync that follows another one with the same runtime listing and the
\* same container logs leaves both mirror tables with contents identical to those the
\* first one left.
C15_ResyncIsIdempotent ==
    last.repeat => db = last.before

\* C15 as amended: such a resync leaves both mirror tables with the same rows in the same
\* order, equal in container_name, status and log; created_at and timestamp carry the
\* time of each resync.
C15_ResyncIsIdempotentUpToSyncTime ==
    last.repeat
        => /\ Plain(db.containers) = Plain(last.before.containers)
           /\ PlainLogs(db.logs) = PlainLogs(last.before.logs)

\* C15 witness: a resync has repeated the one before it on a listing with a running
\* container whose log lines were fetched both times
C15_Witness ==
    /\ last.repeat
    /\ Len(last.containers) >= 2
    /\ last.skipped = {}
    /\ \E k \in 1..Len(last.fetched) : last.fetched[k].log_text # ""
    /\ Len(db.logs) >= 2

\* the rows of a logs table that belong to a container
LogRowsOf(rows, container) ==
    {r \in 1..Len(rows) : rows[r].container_name = ListedName(container)}

\* in a resync with this listing, these log rows and these fetches, every container that
\* is not running has at most one log row and no fetch
NotRunningHaveOneRow(containers, rows, fetched) ==
    \A k \in 1..Len(containers) :
        containers[k].State # "running"
            => /\ Cardinality(LogRowsOf(rows, containers[k])) <= 1
               /\ \A e \in 1..Len(fetched) : fetched[e].index # k

\* C16: in every resync cycle, while it runs and once it has committed, a listed
\* container whose raw state is not "running" has at most one row in the logs table and
\* its logs were not fetched from the runtime.
C16_NotRunningGivesOneLogRow ==
    /\ \A t \in Threads :
          frame[t].pc = "sync_loop"
              => NotRunningHaveOneRow(frame[t].containers, txn[t].logs, frame[t].fetched)
    /\ last.valid => NotRunningHaveOneRow(last.containers, db.logs, last.fetched)

\* C16 witness: a committed resync listed an exited container and stored its
\* placeholder line
C16_Witness ==
    /\ last.valid
    /\ \E k \in 1..Len(last.containers) :
          /\ last.containers[k].State = "exited"
          /\ \E r \in LogRowsOf(db.logs, last.containers[k]) :
                db.logs[r].log = "Container is Exited. Start container to see logs."

\* C17: the status stored for a listed container is: for a raw status containing
\* "292 years ago", Running if the raw state is "running" and Exited otherwise; otherwise
\* Exited for a status containing "Exited", else Running for one containing "Up", else
\* Created for one containing "Created", else the raw status itself.
C17_StatusNormalization ==
    (last.valid /\ last.skipped = {})
        => \A k \in 1..Len(last.containers) :
              LET raw == last.containers[k].Status
                  state == last.containers[k].State
                  stored == db.containers[k].status
                  artifact == Contains(raw, "292 years ago")
                  exited == ~artifact /\ Contains(raw, "Exited")
                  up == ~artifact /\ ~exited /\ Contains(raw, "Up")
                  created == ~artifact /\ ~exited /\ ~up /\ Contains(raw, "Created")
              IN  /\ (artifact /\ state = "running") => stored = "Running"
                  /\ (artifact /\ state # "running") => stored = "Exited"
                  /\ exited => stored = "Exited"
                  /\ up => stored = "Running"
                  /\ created => stored = "Created"
                  /\ (~artifact /\ ~exited /\ ~up /\ ~created) => stored = raw

\* C17 witness: a committed resync stored Exited for a container whose status reads
\* "Up 292 years ago" and whose raw state is not "running"
C17_Witness ==
    /\ last.valid
    /\ Len(db.containers) = 1
    /\ last.containers[1].Status = "Up 292 years ago"
    /\ last.containers[1].State = "exited"
    /\ db.containers[1].status = "Exited"

\* C24: when fetching the logs of a running container fails during a resync (the logs
\* command exits with an error, so get_logs has no output to return), the logs table
\* gets exactly one row for that container, a synthetic error line, and the resync goes
\* on with the remaining containers.
C24_LogFetchErrorGivesOneErrorRow ==
    last.valid
        => \A e \in 1..Len(last.fetched) :
              last.fetched[e].log_text = get_logs(FALSE)
                  => LET rows == LogRowsOf(db.logs, last.containers[last.fetched[e].index])
                     IN  /\ Cardinality(rows) = 1
                         /\ \A r \in rows : StartsWith(db.logs[r].log, "Error fetching logs")
                         /\ Len(db.containers) = Len(last.containers) - Cardinality(last.skipped)

\* C30: when the runtime listing fails, get_containers returns an empty list and
\* sync_with_db treats it as an empty runtime: it deletes every row of both mirror
\* tables and inserts none, so the resync commits an empty mirror, whatever containers
\* the runtime holds.
C30_FailedListingEmptiesTheMirror ==
    /\ [](\A t \in Syncing :
            (Invoked(t, "sync") /\ ~frame[t].listed)
                => /\ frame[t].containers = << >>
                   /\ frame[t].pc = "sync_loop" => txn[t] = EmptyTables)
    /\ [][\A t \in Threads :
            (frame[t].pc = "sync_loop" /\ ~frame[t].listed /\ frame'[t] = AfterSync(frame[t]))
                => db' = EmptyTables]_vars

\* C30 witness: the last resync committed after a failed listing, the mirror is empty
\* and the runtime holds a container
C30_Witness ==
    /\ last.valid
    /\ ~last.listed
    /\ last.containers = << >>
    /\ db = EmptyTables
    /\ runtime # << >>

\* the k-th listed container has its row in the containers table and its log rows: one
\* per line fetched when it runs, the placeholder row otherwise
HasRows(tables, containers, fetched, k) ==
    /\ \E r \in 1..Len(tables.containers) :
          tables.containers[r].container_name = ListedName(containers[k])
    /\ IF FetchesLogs(containers[k])
       THEN \E e \in 1..Len(fetched) :
               /\ fetched[e].index = k
               /\ Cardinality(LogRowsOf(tables.logs, containers[k]))
                     = Len(LogLines(fetched[e].log_text))
       ELSE Cardinality(LogRowsOf(tables.logs, containers[k])) = 1

\* C31: an exception raised while one listed container is processed is confined to
\* that container: the step that raises goes on to the next listed container without
\* leaving the loop, every other container gone through has its container and log rows,
\* and the committed mirror holds the rows of every container that did not raise.
C31_ContainerErrorIsConfined ==
    /\ [](\A t \in Rewriting :
            \A k \in (1..(frame[t].i - 1)) \ frame[t].skipped :
                HasRows(txn[t], frame[t].containers, frame[t].fetched, k))
    /\ [](last.valid =>
            \A k \in (1..Len(last.containers)) \ last.skipped :
                HasRows(db, last.containers, last.fetched, k))
    /\ [][\A t \in Rewriting :
            (frame'[t].skipped \ frame[t].skipped # {})
                => /\ frame'[t].pc = "sync_loop"
                   /\ frame'[t].i = frame[t].i + 1
                   /\ frame'[t].containers = frame[t].containers
                   /\ txn'[t] = txn[t]]_vars

\* C31 witness: a committed resync in which the first listed container raised and the
\* second has its rows in the mirror
C31_Witness ==
    /\ last.valid
    /\ last.skipped = {1}
    /\ Len(last.containers) = 2
    /\ HasRows(db, last.containers, last.fetched, 2)

\* C10: a dashboard read running concurrently with a resync observes a complete
\* snapshot (the one before the resync or the one after it), never a table that a
\* resync has emptied or only partly refilled.
C10_ReadersSeeCompleteSnapshots ==
    \A t \in Threads :
        /\ (frame[t].handler = "api_status" /\ Returned(t))
              => \E s \in snapshots : frame[t].seen.containers = s.containers
        /\ (frame[t].handler = "api_logs" /\ Returned(t))
              => \E s \in snapshots : frame[t].seen.logs = s.logs

\* C10 witness: a read that took place while a resync was rewriting the tables
\* returned the rows of the snapshot before it
C10_Witness ==
    \E r, w \in Threads :
        /\ frame[r].handler = "api_status" /\ Returned(r) /\ frame[r].overlap
        /\ frame[r].seen.containers # << >>
        /\ frame[w].pc = "sync_loop"
        /\ frame[w].i > 1
        /\ txn[w].containers # frame[r].seen.containers

====
